---- MODULE Spec2Model ----
(***************************************************************************)
(* The query pipeline of the natural-language-to-SQL backend:              *)
(* QueryPipeline.run driving the four pipeline steps                        *)
(* (question classifier, requirement gathering, SQL generation, data       *)
(* summarization), its retry policy, the merge of step data into the       *)
(* shared state and the reply selection.  The language model, the schema   *)
(* tools and the query executor are the environment: every answer they can *)
(* give is an input chosen with \E.                                        *)
(***************************************************************************)
EXTENDS Integers, Sequences, FiniteSets, TLC

VARIABLES
    tools,          \* the tool list handed to run (fixed for one run)
    pc,             \* position of QueryPipeline.run
    stepIndex,      \* index of `step` in self.pipeline_steps
    retrying,       \* TRUE inside the while loop of lines 82-94
    iterator,       \* the retry loop's counter
    max_retries,    \* result.error.retry_count of the first failed attempt
    data,           \* the shared state mapping
    result,         \* the StepOutput the last step.run returned
    results,        \* the trace of StepOutputs
    statistics,     \* the statistics list
    reply,          \* the running reply
    error,          \* PipelineResult.error
    calls,          \* every step.run invocation, in order, with the state it got
    returns,        \* what every step.run invocation returned: step and kind of error
    iterations,     \* SQL generation: the loop counter of run
    previous_sql,   \* SQL generation: SQL of the last failed attempt
    previous_error, \* SQL generation: error text of the last failed attempt
    attempts,       \* SQL generation: the generate_sql calls of the invocation
                    \* that runs or has just returned
    external,       \* what that invocation called: model, tools, database
    response,       \* the text of that invocation's last model response, as a
                    \* sequence: empty when the model gave none
    sqlStep,        \* the shared SQL generation step: its instance fields
    threads,        \* concurrent invocations of the shared SQL generation step
    parser,         \* the response parser: a record, its block and what it reads
    store,          \* the persistent store: step outputs and statistics records
    pool,           \* CLIENT_DATABASE_CONNECTIONS_POOL and the engines created
    callers         \* the concurrent calls of get_connection_pool

vars == <<tools, pc, stepIndex, retrying, iterator, max_retries, data, result,
          results, statistics, reply, error, calls, returns, iterations,
          previous_sql, previous_error, attempts, external, response, sqlStep,
          threads, parser, store, pool, callers>>

\* the state concurrent invocations share and keep
concurrent == <<sqlStep, threads>>

\* the state outside the pipeline: the parser's own, the store, the pools
outside == <<parser, store, pool, callers>>

\* the state of the one run the other variables follow
single == <<tools, pc, stepIndex, retrying, iterator, max_retries, data, result,
            results, statistics, reply, error, calls, returns, iterations,
            previous_sql, previous_error, attempts, external, response>>

-----------------------------------------------------------------------------
(* Bounds of the model                                                     *)

\* the largest number of rows the query executor returns
MaxRows == 11

-----------------------------------------------------------------------------
(* Values                                                                  *)

\* Python's None, for the string-valued keys
None == "<None>"

\* Falsy that takes the empty string for a value
FalsyNoneOnly(v) == v = None

\* `not v` for a string or None
Falsy(v) == v = None \/ v = ""

\* the empty mapping {}
EmptyDict == [k \in {} |-> None]

\* data.get(key), for the string-valued keys
Get(d, k) == IF k \in DOMAIN d THEN d[k] ELSE None

Min(S) == CHOOSE x \in S : \A y \in S : x <= y

\* PipelineStepType
QUESTION_CLASSIFICATION == "question_classification"
REQUIREMENTS_EXTRACTION == "requirements_extraction"
NATURAL_LANGUAGE_TO_SQL == "natural_language_to_sql"
DATA_SUMMARIZATION == "data_summarization"

\* query_pipeline.pipeline_steps, by the type of each step
pipeline_steps ==
    <<QUESTION_CLASSIFICATION, REQUIREMENTS_EXTRACTION, NATURAL_LANGUAGE_TO_SQL,
      DATA_SUMMARIZATION>>

\* the user's question, and the initial keys of the shared state
Query == "how many orders"
InitialData == [k \in {"user_id", "message_id"} |->
                  IF k = "user_id" THEN "user-1" ELSE "message-1"]

\* the input mapping {"query": query}
QueryInput == [k \in {"query"} |-> Query]

-----------------------------------------------------------------------------
(* Errors                                                                  *)

\* default retry budget of RetryablePipelineStepException
DefaultRetryCount == 3

NoError == [kind |-> "none", message |-> "", retry_count |-> 0]

\* RetryablePipelineStepException with a budget of one retry
RetryablePipelineStepExceptionOnce(message) ==
    [kind |-> "retryable", message |-> message, retry_count |-> 1]

RetryablePipelineStepException(message) ==
    [kind |-> "retryable", message |-> message, retry_count |-> DefaultRetryCount]

\* any other Exception
PlainException(message) == [kind |-> "fatal", message |-> message, retry_count |-> 0]

\* isinstance(error, RetryablePipelineStepException)
IsRetryable(e) == e.kind = "retryable"

\* truth value of result.error
HasError(e) == e.kind # "none"

-----------------------------------------------------------------------------
(* Model responses and their parsing                                       *)

\* a response text: whether it holds one fenced block, and the block's keys
Text(fenced, fields) == [fenced |-> fenced, fields |-> fields]

\* the empty string
EmptyText == Text(FALSE, EmptyDict)

\* a response with no structured block at all
Garbage == [fenced |-> FALSE, fields |-> [k \in {"prose"} |-> "sorry"]]

\* YamlOutputParser.invoke succeeds: one block, every required field present
ParseOk(text, required) == text.fenced /\ required \subseteq DOMAIN text.fields

\* the record YamlOutputParser.invoke returns, as output.dict(): every field of
\* the schema, None for an optional field the block leaves out
ParsedDict(text, keys) ==
    [k \in keys |-> IF k \in DOMAIN text.fields THEN text.fields[k] ELSE None]

\* statistics of a StepOutput
NoStatistics == [kind |-> "none", step_type |-> ""]
EmptyStatistics == [kind |-> "empty", step_type |-> ""]
Statistics(step_type) == [kind |-> "record", step_type |-> step_type]

\* truth value of result.statistics
HasStatistics(s) == s.kind = "record"

\* PipelineStepOutput.__init__
PipelineStepOutput(step_type, d, input, raw_data, terminal, err, stats) ==
    [step_type |-> step_type, data |-> d, input |-> input, raw_data |-> raw_data,
     terminal |-> terminal, error |-> err, statistics |-> stats]

NoResult ==
    PipelineStepOutput("", EmptyDict, EmptyDict, EmptyText, TRUE, NoError, NoStatistics)

-----------------------------------------------------------------------------
(* Tools                                                                   *)

SchemaGetter(connection, connection_id) ==
    [name |-> connection \o "SchemaGetter", kind |-> "SchemaGetter",
     connection |-> connection, connection_id |-> connection_id]

QueryExecutor(connection) ==
    [name |-> connection \o "QueryExecutor", kind |-> "QueryExecutor",
     connection |-> connection, connection_id |-> None]

\* the tool lists a run may be given: connection "a" is fully bound, "b" yields
\* no connection id, "c" has no query executor
ToolLists ==
    { <<SchemaGetter("a", "id-a"), SchemaGetter("b", None), SchemaGetter("c", "id-c"),
        QueryExecutor("a"), QueryExecutor("b")>>,
      <<>> }

\* next((tool for tool in tools if tool.name == name), None): its index, 0 for None
FindTool(tls, name) ==
    LET m == {i \in 1..Len(tls) : tls[i].name = name}
    IN  IF m = {} THEN 0 ELSE Min(m)

\* [tool for tool in tools if "SchemaGetter" in tool.name]
SchemaGetterTools(tls) == SelectSeq(tls, LAMBDA t : t.kind = "SchemaGetter")

get_connection_id_from_tools(schema_tool_name, tls) ==
    IF Falsy(schema_tool_name) THEN None
    ELSE IF FindTool(tls, schema_tool_name) = 0 THEN None
    ELSE tls[FindTool(tls, schema_tool_name)].connection_id

-----------------------------------------------------------------------------
(* What the environment can answer                                         *)

\* reply texts a model response may carry, by the step that asks
RequirementReplies == {"", "which table do you mean?"}
SqlReplies == {"", "here is the query"}
SummaryReplies == {"", "here is the summary"}

\* an outcome of a model call: it raises, or it returns a text
Raises == [raises |-> TRUE, text |-> EmptyText]
Returns(text) == [raises |-> FALSE, text |-> text]

RequirementKeys ==
    {"reply", "schema_tool_name", "requirement", "is_requirement_clear",
     "is_already_answered_without_further_queries"}
RequirementRequired ==
    {"reply", "is_requirement_clear", "is_already_answered_without_further_queries"}

\* a requirement-gathering block; None for an optional field leaves it out
RequirementBlock(r, s, q, c, a) ==
    Text(TRUE,
         [k \in RequirementRequired
                  \cup (IF s = None THEN {} ELSE {"schema_tool_name"})
                  \cup (IF q = None THEN {} ELSE {"requirement"}) |->
            CASE k = "reply" -> r
              [] k = "schema_tool_name" -> s
              [] k = "requirement" -> q
              [] k = "is_requirement_clear" -> c
              [] OTHER -> a])

SchemaToolNames ==
    {None, "", "aSchemaGetter", "bSchemaGetter", "cSchemaGetter", "zSchemaGetter"}
Requirements == {None, "", "count the orders"}

RequirementTexts ==
    {Garbage, Text(TRUE, [k \in {"reply"} |-> "which table do you mean?"])}
    \cup {RequirementBlock(r, s, q, c, a) :
            r \in RequirementReplies, s \in SchemaToolNames, q \in Requirements,
            c \in BOOLEAN, a \in BOOLEAN}

SqlKeys == {"reply", "sql"}
SqlRequired == {"reply"}
SqlBlock(r, q) ==
    Text(TRUE, [k \in {"reply"} \cup (IF q = None THEN {} ELSE {"sql"}) |->
                  IF k = "reply" THEN r ELSE q])
SqlStatements == {None, "", "SELECT 1", "SELECT 2"}
SqlTexts ==
    {Garbage} \cup {SqlBlock(r, q) : r \in SqlReplies, q \in SqlStatements}

SummaryKeys == {"reply", "data_summary"}
SummaryBlock(r, s) ==
    Text(TRUE, [k \in SummaryKeys |-> IF k = "reply" THEN r ELSE s])
Summaries == {"", "summary-1"}
SummaryTexts ==
    {Garbage, Text(TRUE, [k \in {"reply"} |-> "here is the summary"])}
    \cup {SummaryBlock(r, s) : r \in SummaryReplies, s \in Summaries}

\* result rows, as their row numbers
Rows(n) == [i \in 1..n |-> i]

\* sql_data: None, or a list of rows
NoSqlData == [none |-> TRUE, rows |-> <<>>]
SqlData(rows) == [none |-> FALSE, rows |-> rows]

\* the string a query executor returns: whether it carries SQLAlchemy's error
\* marker, whether it is the literal of a list of rows, and those rows
ExecString(marker, message, literal, rows) ==
    [marker |-> marker, message |-> message, literal |-> literal, rows |-> rows]

ExecStrings ==
    {ExecString(TRUE, m, FALSE, <<>>) : m \in {"error-1", "error-2"}}
    \cup {ExecString(FALSE, "This result object does not return rows", FALSE, <<>>),
          ExecString(FALSE, "", FALSE, Rows(1))}
    \cup {ExecString(FALSE, "", TRUE, Rows(n)) : n \in {0, 1, MaxRows}}

-----------------------------------------------------------------------------
(* The pipeline steps                                                      *)

\* ClassifierRun that ends the run
ClassifierRunTerminal ==
    PipelineStepOutput(QUESTION_CLASSIFICATION, EmptyDict, QueryInput, EmptyText,
                       TRUE, NoError, EmptyStatistics)

\* DataRelatedQuestionClassifierPipelineStep.run
ClassifierRun ==
    PipelineStepOutput(QUESTION_CLASSIFICATION, EmptyDict, QueryInput, EmptyText,
                       FALSE, NoError, EmptyStatistics)

\* Fault that leaves the run going
FaultNonTerminal(step_type, message) ==
    PipelineStepOutput(step_type, EmptyDict, QueryInput, EmptyText, FALSE,
                       PlainException(message), NoStatistics)

\* Fault as a failure the orchestrator retries
FaultRetryable(step_type, message) ==
    PipelineStepOutput(step_type, EmptyDict, QueryInput, EmptyText, TRUE,
                       RetryablePipelineStepException(message), NoStatistics)

\* the StepOutput of a step's outer `except Exception as e`
Fault(step_type, message) ==
    PipelineStepOutput(step_type, EmptyDict, QueryInput, EmptyText, TRUE,
                       PlainException(message), NoStatistics)

\* UnresolvedConnection as a plain, non-retryable exception
UnresolvedConnectionFatal(output, raw_data) ==
    PipelineStepOutput(REQUIREMENTS_EXTRACTION, output, QueryInput, raw_data, TRUE,
        PlainException(
            "AI could not decide on the database, so no connection id found"),
        Statistics(REQUIREMENTS_EXTRACTION))

\* the requirement step's StepOutput when no connection id is resolved
UnresolvedConnection(output, raw_data) ==
    PipelineStepOutput(REQUIREMENTS_EXTRACTION, output, QueryInput, raw_data, TRUE,
        RetryablePipelineStepException(
            "AI could not decide on the database, so no connection id found"),
        Statistics(REQUIREMENTS_EXTRACTION))

\* ShouldContinue that forgets the already-answered flag
ShouldContinueIfClear(output) == output.is_requirement_clear

\* lines 319-322: the requirement is clear and not answered yet
ShouldContinue(output) ==
    /\ output.is_requirement_clear
    /\ ~output.is_already_answered_without_further_queries

\* DataRelatedRequirementGatheringPipelineStep.run, given the agent's outcome
RequirementGatheringRun(tls, outcome) ==
    IF outcome.raises THEN Fault(REQUIREMENTS_EXTRACTION, "model call failed")
    ELSE IF ~ParseOk(outcome.text, RequirementRequired)
    THEN PipelineStepOutput(REQUIREMENTS_EXTRACTION, EmptyDict, QueryInput,
             outcome.text, TRUE,
             RetryablePipelineStepException("Error in parsing output"), NoStatistics)
    ELSE LET output == ParsedDict(outcome.text, RequirementKeys)
             connection_id ==
                 get_connection_id_from_tools(output.schema_tool_name,
                                              SchemaGetterTools(tls))
         IN  IF ShouldContinue(output)
             THEN IF Falsy(connection_id)
                  THEN UnresolvedConnection(output, outcome.text)
                  ELSE PipelineStepOutput(REQUIREMENTS_EXTRACTION,
                           [k \in RequirementKeys \cup {"connection_id"} |->
                              IF k = "connection_id" THEN connection_id ELSE output[k]],
                           QueryInput, outcome.text, FALSE, NoError,
                           Statistics(REQUIREMENTS_EXTRACTION))
             ELSE PipelineStepOutput(REQUIREMENTS_EXTRACTION, output, QueryInput,
                      outcome.text, TRUE, NoError,
                      Statistics(REQUIREMENTS_EXTRACTION))

\* {"requirement": requirement}
RequirementInput(requirement) == [k \in {"requirement"} |-> requirement]

\* lines 223-268: run returns before it reads the schema
SqlGenerationRejects(d, tls) ==
    \/ Falsy(Get(d, "schema_tool_name"))
    \/ Falsy(Get(d, "requirement"))
    \/ FindTool(tls, d["schema_tool_name"]) = 0

\* NaturalLanguageToSQLGenerationPipelineStep.run up to its loop, given whether
\* schema_tool.run raises: the StepOutput of an early return, or NoResult when
\* the loop is entered
SqlGenerationEarlyReturn(d, tls, schemaRaises) ==
    IF Falsy(Get(d, "schema_tool_name"))
    THEN Fault(NATURAL_LANGUAGE_TO_SQL, "No schema found")
    ELSE IF Falsy(Get(d, "requirement"))
    THEN Fault(NATURAL_LANGUAGE_TO_SQL, "No requirement found")
    ELSE IF FindTool(tls, d["schema_tool_name"]) = 0
    THEN Fault(NATURAL_LANGUAGE_TO_SQL, "No schema tool found")
    ELSE IF schemaRaises
    THEN Fault(NATURAL_LANGUAGE_TO_SQL, "schema tool failed")
    ELSE NoResult

\* the sql_executor run picks: index of {schema_name}QueryExecutor, 0 for None
SqlExecutorOf(d, tls) ==
    FindTool(tls, tls[FindTool(tls, d["schema_tool_name"])].connection
                  \o "QueryExecutor")

\* detect_sql_error
detect_sql_error(res) == res.marker

\* the number of sample rows kept for the summarization step
SampleRows == 10

\* SqlDataOf without the cut after 10 rows
SqlDataOfAllRows(res) ==
    IF res.literal THEN SqlData(res.rows) ELSE NoSqlData

\* ast.literal_eval(res)[:10], None when res is no literal
SqlDataOf(res) ==
    IF res.literal
    THEN SqlData(SubSeq(res.rows, 1,
                        IF Len(res.rows) < SampleRows THEN Len(res.rows) ELSE SampleRows))
    ELSE NoSqlData

\* generate_sql reaches line 400 and the executor runs the SQL
Executes(d, tls, outcome) ==
    /\ ~outcome.raises
    /\ ParseOk(outcome.text, SqlRequired)
    /\ ~Falsy(ParsedDict(outcome.text, SqlKeys).sql)
    /\ SqlExecutorOf(d, tls) # 0

\* what stands for the executor's string when the executor was not called
NotExecuted == ExecString(FALSE, "", FALSE, <<>>)

\* generate_sql raises SQLExecutionError
RaisesSQLExecutionError(d, tls, outcome, res) ==
    /\ Executes(d, tls, outcome)
    /\ detect_sql_error(res)

\* generate_sql when it returns (or raises something run's outer except catches)
generate_sql(d, tls, outcome, res) ==
    IF outcome.raises THEN Fault(NATURAL_LANGUAGE_TO_SQL, "model call failed")
    ELSE IF ~ParseOk(outcome.text, SqlRequired)
    THEN PipelineStepOutput(NATURAL_LANGUAGE_TO_SQL, EmptyDict,
             RequirementInput(d["requirement"]), outcome.text, TRUE,
             RetryablePipelineStepException("Error in parsing output: "),
             NoStatistics)
    ELSE LET output == ParsedDict(outcome.text, SqlKeys)
         IN  IF Falsy(output.sql)
             THEN PipelineStepOutput(NATURAL_LANGUAGE_TO_SQL, output,
                      RequirementInput(d["requirement"]), outcome.text, TRUE,
                      RetryablePipelineStepException("Failed to generate sql query"),
                      NoStatistics)
             ELSE IF SqlExecutorOf(d, tls) = 0
             THEN Fault(NATURAL_LANGUAGE_TO_SQL, "'NoneType' object has no attribute 'run'")
             ELSE PipelineStepOutput(NATURAL_LANGUAGE_TO_SQL,
                      [k \in SqlKeys \cup {"sql_data"} |->
                         IF k = "sql_data" THEN SqlDataOf(res) ELSE output[k]],
                      RequirementInput(d["requirement"]), outcome.text, FALSE,
                      NoError, Statistics(NATURAL_LANGUAGE_TO_SQL))

\* SQLExecutionError(output.sql, res), as lines 300-303 keep it
SQLExecutionError(sql, res) == [sql |-> sql, message |-> res.message]

\* what one call of generate_sql was given and did: the previous SQL and error
\* of its prompt, the SQL the model answered, and the executor's string
Attempt(prev_sql, prev_error, d, tls, outcome, res) ==
    LET parsed == ~outcome.raises /\ ParseOk(outcome.text, SqlRequired)
        sql == IF parsed THEN ParsedDict(outcome.text, SqlKeys).sql ELSE None
        executed == Executes(d, tls, outcome)
    IN  [previous_sql |-> prev_sql, previous_error |-> prev_error, sql |-> sql,
         executed |-> executed, res |-> IF executed THEN res ELSE NotExecuted]

\* SqlGenerationExhausted as a failure the orchestrator retries
SqlGenerationExhaustedRetryable(d, last_error) ==
    PipelineStepOutput(NATURAL_LANGUAGE_TO_SQL, EmptyDict,
        RequirementInput(d["requirement"]), EmptyText, TRUE,
        RetryablePipelineStepException(last_error), Statistics(NATURAL_LANGUAGE_TO_SQL))

\* the StepOutput of run after its loop ran out of attempts
SqlGenerationExhausted(d, last_error) ==
    PipelineStepOutput(NATURAL_LANGUAGE_TO_SQL, EmptyDict,
        RequirementInput(d["requirement"]), EmptyText, TRUE,
        PlainException(last_error), Statistics(NATURAL_LANGUAGE_TO_SQL))

\* the number of generate-and-execute attempts of one invocation
MaxSqlAttempts == 3

\* LoopsAgain with one attempt more
LoopsAgainOnceMore(n) == n < MaxSqlAttempts

\* line 289: after the SQLExecutionError that made iterations n + 1, the loop
\* makes another attempt
LoopsAgain(n) == n + 1 < MaxSqlAttempts

\* the input mappings of the summarization step
SqlQueryInput(sql) ==
    [k \in {"query", "sql_query"} |-> IF k = "query" THEN Query ELSE sql]
SummaryInput(sql, requirement) ==
    [k \in {"query", "sql", "requirement"} |->
       CASE k = "query" -> Query [] k = "sql" -> sql [] OTHER -> requirement]

\* the summarization step reads the rows again: sql_data is missing, None or empty
NeedsQueryData(d) ==
    \/ "sql_data" \notin DOMAIN d
    \/ d["sql_data"].none
    \/ d["sql_data"].rows = <<>>

\* the terminal flag of the summarization step's successful StepOutput
SummarizationSuccessTerminal == FALSE

\* lines 101-160: run returns before it reads the schema
SummarizationRejects(d, tls) ==
    \/ Falsy(Get(d, "schema_tool_name"))
    \/ Falsy(Get(d, "requirement"))
    \/ Falsy(Get(d, "connection_id"))
    \/ Falsy(Get(d, "sql"))
    \/ FindTool(tls, d["schema_tool_name"]) = 0

\* what DataSummarizationPipelineStep.run calls on its way
SummarizationExternal(d, tls, schemaRaises, fetchRaises) ==
    IF SummarizationRejects(d, tls) THEN {}
    ELSE IF schemaRaises THEN {"schema_tool"}
    ELSE IF NeedsQueryData(d)
    THEN IF fetchRaises THEN {"schema_tool", "execute_custom_query"}
         ELSE {"schema_tool", "execute_custom_query", "model"}
    ELSE {"schema_tool", "model"}

\* DataSummarizationPipelineStep.run, given whether schema_tool.run and
\* execute_custom_query raise and the model's outcome
SummarizationRun(d, tls, schemaRaises, fetchRaises, outcome) ==
    IF Falsy(Get(d, "schema_tool_name"))
    THEN Fault(DATA_SUMMARIZATION, "No schema found")
    ELSE IF Falsy(Get(d, "requirement"))
    THEN Fault(DATA_SUMMARIZATION, "No requirement found")
    ELSE IF Falsy(Get(d, "connection_id"))
    THEN PipelineStepOutput(DATA_SUMMARIZATION, EmptyDict, EmptyDict, EmptyText,
             TRUE, PlainException("No connection_id found"), NoStatistics)
    ELSE IF Falsy(Get(d, "sql"))
    THEN Fault(DATA_SUMMARIZATION, "No sql found")
    ELSE IF FindTool(tls, d["schema_tool_name"]) = 0
    THEN Fault(DATA_SUMMARIZATION, "No schema tool found")
    ELSE IF schemaRaises
    THEN Fault(DATA_SUMMARIZATION, "schema tool failed")
    ELSE IF NeedsQueryData(d) /\ fetchRaises
    THEN PipelineStepOutput(DATA_SUMMARIZATION, EmptyDict, SqlQueryInput(d["sql"]),
             EmptyText, TRUE, PlainException("query failed"), NoStatistics)
    ELSE IF outcome.raises
    THEN Fault(DATA_SUMMARIZATION, "model call failed")
    ELSE IF ~ParseOk(outcome.text, SummaryKeys)
    THEN PipelineStepOutput(DATA_SUMMARIZATION, EmptyDict, QueryInput,
             outcome.text, TRUE,
             RetryablePipelineStepException("Error in parsing output"), NoStatistics)
    ELSE PipelineStepOutput(DATA_SUMMARIZATION, ParsedDict(outcome.text, SummaryKeys),
             SummaryInput(d["sql"], d["requirement"]), outcome.text,
             SummarizationSuccessTerminal, NoError, Statistics(DATA_SUMMARIZATION))

-----------------------------------------------------------------------------
(* The shared SQL generation step under concurrent invocations             *)

\* the runs that execute concurrently on query_pipeline
Runs == {"run-1", "run-2"}

\* NaturalLanguageToSQLGenerationPipelineStep.__init__: the instance fields
NewSqlStep == [completion_tokens |-> None, prompt_tokens |-> None, start_time |-> None]

\* time() as read by run r
Time(r) == "time read by " \o r

\* usage_metadata of one model response
Usage == [output_tokens |-> 1, input_tokens |-> 2]

\* the statistics of the StepOutput a run got from the SQL generation step
NoThreadStatistics ==
    [kind |-> "none", completion_tokens |-> 0, prompt_tokens |-> 0,
     call_start_time |-> None]

\* lines 377-386 and 306-315: the statistics record, read from the instance
ThreadStatistics(step) ==
    [kind |-> "record", completion_tokens |-> step.completion_tokens,
     prompt_tokens |-> step.prompt_tokens, call_start_time |-> step.start_time]

\* a run that has not reached the SQL generation step yet: its position in the
\* step, the loop counter of run, the tokens its own model calls used, and the
\* statistics of the StepOutput it got
NewThread ==
    [pc |-> "idle", iterations |-> 0, output_tokens |-> 0, input_tokens |-> 0,
     statistics |-> NoThreadStatistics]

-----------------------------------------------------------------------------
(* The structured block: how a record is written as one and read back      *)

\* a scalar of a block line: its characters, and whether they stand in quotes
Quoted(chars) == [quoted |-> TRUE, chars |-> chars]
Plain(chars) == [quoted |-> FALSE, chars |-> chars]

\* the fields of a step's output schema, in the order of the block
RequirementFields ==
    <<"reply", "schema_tool_name", "requirement", "is_requirement_clear",
      "is_already_answered_without_further_queries">>
SqlFields == <<"reply", "sql">>
SummaryFields == <<"reply", "data_summary">>

\* Output: the type of each field
FieldType(k) ==
    CASE k \in {"reply", "data_summary"} -> "str"
      [] k \in {"schema_tool_name", "requirement", "sql"} -> "optional"
      [] OTHER -> "bool"

\* the fields of a schema that have to be there
RequiredOf(fields) ==
    {fields[i] : i \in {j \in 1..Len(fields) : FieldType(fields[j]) # "optional"}}

\* the scalar that stands for a field's value: a boolean as true or false, None
\* as null, a string in quotes
WriteScalar(type, v) ==
    IF type = "bool" THEN Plain(IF v THEN "true" ELSE "false")
    ELSE IF v = None THEN Plain("null")
    ELSE Quoted(v)

\* the block of a record: one line per field of the schema, key and scalar
Serialize(record, fields) ==
    [i \in 1..Len(fields) |-> <<fields[i], WriteScalar(FieldType(fields[i]), record[fields[i]])>>]

\* ReadScalar that takes null for None even in quotes
ReadScalarNullInQuotes(scalar) ==
    IF scalar.chars = "null" THEN None
    ELSE IF ~scalar.quoted /\ scalar.chars \in {"true", "false"}
    THEN scalar.chars = "true"
    ELSE scalar.chars

\* the value a scalar reads as: a plain true or false is a boolean, a plain
\* null is None, anything else is the string of its characters
ReadScalar(scalar) ==
    IF ~scalar.quoted /\ scalar.chars = "null" THEN None
    ELSE IF ~scalar.quoted /\ scalar.chars \in {"true", "false"}
    THEN scalar.chars = "true"
    ELSE scalar.chars

\* the response text that consists of one fenced block with these lines; a key
\* whose scalar reads as None counts as left out
BlockText(lines) ==
    LET present == {i \in 1..Len(lines) : ~(~lines[i][2].quoted /\ lines[i][2].chars = "null")}
        line(k) == CHOOSE i \in present : lines[i][1] = k
    IN  Text(TRUE, [k \in {lines[i][1] : i \in present} |-> ReadScalar(lines[line(k)][2])])

\* the records that are valid under a schema: a string for a str field, a
\* string or None for an optional one, a boolean for a bool field
StringValues == {"", "null", "true", "count the orders"}
OptionalValues == StringValues \cup {None}

RequirementRecords ==
    {[reply |-> r, schema_tool_name |-> s, requirement |-> q,
      is_requirement_clear |-> c, is_already_answered_without_further_queries |-> a] :
       r \in StringValues, s \in {None, "aSchemaGetter", "null"}, q \in OptionalValues,
       c \in BOOLEAN, a \in BOOLEAN}
SqlRecords == {[reply |-> r, sql |-> q] : r \in StringValues, q \in OptionalValues}
SummaryRecords == {[reply |-> r, data_summary |-> d] : r \in StringValues, d \in StringValues}

\* the parser at rest
NoParser == [pc |-> "off"]

\* a record to write and read back, with the fields of its schema
ParserInput(fields, record) ==
    [pc |-> "record", fields |-> fields, record |-> record]
ParserInputs ==
    {ParserInput(RequirementFields, r) : r \in RequirementRecords}
    \cup {ParserInput(SqlFields, r) : r \in SqlRecords}
    \cup {ParserInput(SummaryFields, r) : r \in SummaryRecords}

-----------------------------------------------------------------------------
(* The persistent store and the connection pools                           *)

\* the thread and the messages the endpoint has stored when the run starts: an
\* archived message and the one of this run
ThreadId == "thread-1"
Message(id, query, is_archived) ==
    [id |-> id, thread_id |-> ThreadId, query |-> query, is_archived |-> is_archived]
Messages ==
    <<Message("message-0", "an earlier question", TRUE),
      Message(InitialData["message_id"], Query, FALSE)>>

\* the tables, each in the order of its inserts, and whether add_pipeline_result
\* has committed
NewStore ==
    [messages |-> Messages, step_outputs |-> <<>>, statistics |-> <<>>,
     committed |-> FALSE]

\* str(item.error)
Str(e) == IF HasError(e) THEN e.message ELSE "None"

\* lines 165-182: the ExpertPipelineStepOutput row of the trace's entry item,
\* with the position of the entry for its fresh id
StepOutputRow(id, item) ==
    [id |-> id, terminal |-> item.terminal, data |-> item.data, input |-> item.input,
     error |-> Str(item.error), step_type |-> item.step_type,
     message_id |-> InitialData["message_id"], thread_id |-> ThreadId,
     raw_data |-> item.raw_data]

\* StatisticsRowsOf that takes the first record of the step's type only
StatisticsRowsOfFirstOnly(id, item, stats) ==
    LET all == [j \in 1..Len(stats) |->
                  [step_output_id |-> id, step_type |-> stats[j].step_type, stat |-> j]]
        own == SelectSeq(all, LAMBDA r : r.step_type = item.step_type)
    IN  IF own = <<>> THEN <<>> ELSE <<Head(own)>>

\* lines 184-198: the PipelineStepStatistics rows added for the entry item: one
\* for every record of stats with the entry's step type; stat is the position
\* in stats of the record the row's fields are copied from
StatisticsRowsOf(id, item, stats) ==
    LET all == [j \in 1..Len(stats) |->
                  [step_output_id |-> id, step_type |-> stats[j].step_type, stat |-> j]]
    IN  SelectSeq(all, LAMBDA r : r.step_type = item.step_type)

\* the rows of the statistics table after the loop of line 164 ran from entry i
RECURSIVE StatisticsRowsFrom(_, _, _)
StatisticsRowsFrom(i, outs, stats) ==
    IF i > Len(outs) THEN <<>>
    ELSE StatisticsRowsOf(i, outs[i], stats) \o StatisticsRowsFrom(i + 1, outs, stats)

\* Service.add_pipeline_result
add_pipeline_result(st, outs, stats) ==
    [messages |-> st.messages,
     step_outputs |-> st.step_outputs \o [i \in 1..Len(outs) |-> StepOutputRow(i, outs[i])],
     statistics |-> st.statistics \o StatisticsRowsFrom(1, outs, stats),
     committed |-> TRUE]

\* what chat_history returns: the text before the value, and the raw text or
\* the value of the row it shows; NoParagraph for ""
Paragraph(prefix, raw, value) == [prefix |-> prefix, raw |-> raw, value |-> value]
NoParagraph == Paragraph("", EmptyText, "")

\* self.data.get(key, "")
get_data_str(row, key) == IF key \in DOMAIN row.data THEN row.data[key] ELSE ""

\* ExpertPipelineStepOutput.chat_history
chat_history(row) ==
    IF row.step_type = "QUESTION_CLASSIFICATION"
    THEN IF row.terminal THEN Paragraph("", row.raw_data, "") ELSE NoParagraph
    ELSE IF row.step_type = "REQUIREMENTS_EXTRACTION"
    THEN Paragraph("", row.raw_data, "")
    ELSE IF row.step_type = "NATURAL_LANGUAGE_TO_SQL"
    THEN Paragraph("SQL query: ", EmptyText, get_data_str(row, "sql"))
    ELSE IF row.step_type = "DATA_SUMMARIZATION"
    THEN Paragraph("Data summary: ", EmptyText, get_data_str(row, "data_summary"))
    ELSE NoParagraph

\* an entry of the chat history
Entry(role, paragraph) == [role |-> role, paragraph |-> paragraph]

\* lines 40-51: the entries of one message
MessageHistory(st, message) ==
    LET step_outs == SelectSeq(st.step_outputs, LAMBDA row : row.message_id = message.id)
        ai == [i \in 1..Len(step_outs) |-> Entry("ai", chat_history(step_outs[i]))]
    IN  <<Entry("user", Paragraph("", EmptyText, message.query))>>
        \o SelectSeq(ai, LAMBDA e : e.paragraph # NoParagraph)

\* the entries of the messages from the i-th on
RECURSIVE HistoryFrom(_, _, _)
HistoryFrom(i, st, messages) ==
    IF i > Len(messages) THEN <<>>
    ELSE MessageHistory(st, messages[i]) \o HistoryFrom(i + 1, st, messages)

\* LLMContextManager.get_chat_history: the messages of the thread that are not
\* archived, oldest first
get_chat_history(st, thread_id) ==
    HistoryFrom(1, st,
        SelectSeq(st.messages, LAMBDA m : m.thread_id = thread_id /\ ~m.is_archived))

\* the connection strings get_connection_pool is called with
ConnectionStrings == {"postgresql://a", "postgresql://b"}

\* what dict.get answers for a missing key, as an engine number
NoEngine == 0

\* CLIENT_DATABASE_CONNECTIONS_POOL = dict(), and the engines create_engine
\* made so far: the connection string of each, an engine's number its position
NewPool == [dict |-> [c \in ConnectionStrings |-> NoEngine], created |-> <<>>]

\* the calls of get_connection_pool that run concurrently
Callers == {"call-1", "call-2", "call-3"}

\* a call that has not started: its position, its argument, the engine it
\* created and has not stored yet, and what it returned
NewCaller ==
    [pc |-> "idle", db_connection |-> "", engine |-> NoEngine, returned |-> NoEngine]

-----------------------------------------------------------------------------
(* QueryPipeline.run                                                       *)

\* Update that keeps the value a key already has
UpdateKeepsOld(d, new) ==
    [k \in DOMAIN d \cup DOMAIN new |-> IF k \in DOMAIN d THEN d[k] ELSE new[k]]

\* Update that replaces the state by the step's data
UpdateDropsOld(d, new) == new

\* data.update(copy.deepcopy(result.data))
Update(d, new) ==
    [k \in DOMAIN d \cup DOMAIN new |-> IF k \in DOMAIN new THEN new[k] ELSE d[k]]

\* NewReply that takes the plain reply first
NewReplyPrefersReply(old, d) ==
    IF ~Falsy(Get(d, "reply")) THEN d["reply"] ELSE old

\* lines 98-101: the reply after a StepOutput with data d
NewReply(old, d) ==
    IF ~Falsy(Get(d, "reply"))
    THEN IF ~Falsy(Get(d, "data_summary")) THEN d["data_summary"] ELSE d["reply"]
    ELSE old

\* lines 74-77 and 87-90: statistics.append when result.statistics is truthy
AppendStatistics(stats, r) ==
    IF HasStatistics(r.statistics) THEN Append(stats, r.statistics) ELSE stats

\* WantsRetry with the loop bound off by one
WantsRetryOffByOne ==
    /\ IsRetryable(result.error)
    /\ IF retrying THEN iterator <= max_retries ELSE 0 < result.error.retry_count

\* lines 79-94: the returned result makes the orchestrator invoke the step again
WantsRetry ==
    /\ IsRetryable(result.error)
    /\ IF retrying THEN iterator < max_retries ELSE 0 < result.error.retry_count

\* the record of one step.run invocation
Call(step_type) == [step_type |-> step_type, data |-> data, tools |-> tools]

\* the record of what one step.run invocation returned
Return(r) ==
    [step_type |-> r.step_type, kind |-> r.error.kind,
     retry_count |-> r.error.retry_count]

\* HaltsOnError that lets a retryable failure pass
HaltsOnErrorFatalOnly(r) == r.error.kind = "fatal"

\* line 103: the accepted result halts the run
HaltsOnError(r) == HasError(r.error)

\* StopsAfter that ignores the terminal flag
StopsAfterLastOnly(r, index) == index = Len(pipeline_steps)

\* lines 71 and 114: no further step follows the accepted result
StopsAfter(r, index) == r.terminal \/ index = Len(pipeline_steps)

Init ==
    /\ tools \in ToolLists
    /\ pc = "call"
    /\ stepIndex = 1
    /\ retrying = FALSE
    /\ iterator = 0
    /\ max_retries = 0
    /\ data = InitialData
    /\ result = NoResult
    /\ results = <<>>
    /\ statistics = <<>>
    /\ reply = ""
    /\ error = NoError
    /\ calls = <<>>
    /\ returns = <<>>
    /\ iterations = 0
    /\ previous_sql = ""
    /\ previous_error = ""
    /\ attempts = <<>>
    /\ external = {}
    /\ response = <<>>
    /\ sqlStep = NewSqlStep
    /\ threads = [r \in Runs |-> NewThread]
    /\ parser = NoParser
    /\ store = NewStore
    /\ pool = NewPool
    /\ callers = [c \in Callers |-> NewCaller]

\* the text a model call returned, if the call was made and returned
Answer(called, outcome) ==
    IF "model" \in called /\ ~outcome.raises THEN <<outcome.text>> ELSE <<>>

\* step.run of a step that answers in one go
Invoke(step_type, output, called, outcome) ==
    /\ pc = "call"
    /\ pipeline_steps[stepIndex] = step_type
    /\ result' = output
    /\ calls' = Append(calls, Call(step_type))
    /\ returns' = Append(returns, Return(output))
    /\ attempts' = <<>>
    /\ external' = called
    /\ response' = Answer(called, outcome)
    /\ pc' = "returned"
    /\ UNCHANGED <<tools, stepIndex, retrying, iterator, max_retries, data, results,
                   statistics, reply, error, iterations, previous_sql, previous_error>>
    /\ UNCHANGED <<concurrent, outside>>

CallClassifier == Invoke(QUESTION_CLASSIFICATION, ClassifierRun, {}, Raises)

CallRequirementGathering ==
    \E outcome \in {Raises} \cup {Returns(t) : t \in RequirementTexts} :
        Invoke(REQUIREMENTS_EXTRACTION, RequirementGatheringRun(tools, outcome),
               {"model"}, outcome)

\* the schema tool, the database and the model answer only when they are called
CallSummarization ==
    \E schemaRaises \in IF SummarizationRejects(data, tools) THEN {FALSE} ELSE BOOLEAN :
      \E fetchRaises \in
           IF "execute_custom_query"
                \in SummarizationExternal(data, tools, schemaRaises, FALSE)
           THEN BOOLEAN ELSE {FALSE} :
        LET called == SummarizationExternal(data, tools, schemaRaises, fetchRaises)
        IN  \E outcome \in IF "model" \in called
                            THEN {Raises} \cup {Returns(t) : t \in SummaryTexts}
                            ELSE {Raises} :
              Invoke(DATA_SUMMARIZATION,
                     SummarizationRun(data, tools, schemaRaises, fetchRaises, outcome),
                     called, outcome)

\* NaturalLanguageToSQLGenerationPipelineStep.run, lines 217-287
CallSqlGeneration ==
    /\ pc = "call"
    /\ pipeline_steps[stepIndex] = NATURAL_LANGUAGE_TO_SQL
    /\ calls' = Append(calls, Call(NATURAL_LANGUAGE_TO_SQL))
    /\ iterations' = 0
    /\ previous_sql' = ""
    /\ previous_error' = ""
    /\ attempts' = <<>>
    /\ external' = IF SqlGenerationRejects(data, tools) THEN {} ELSE {"schema_tool"}
    /\ response' = <<>>
    /\ \E schemaRaises \in IF SqlGenerationRejects(data, tools) THEN {FALSE} ELSE BOOLEAN :
         LET early == SqlGenerationEarlyReturn(data, tools, schemaRaises)
         IN  IF early # NoResult
             THEN /\ result' = early
                  /\ returns' = Append(returns, Return(early))
                  /\ pc' = "returned"
             ELSE /\ result' = NoResult
                  /\ returns' = returns
                  /\ pc' = "generate"
    /\ UNCHANGED <<tools, stepIndex, retrying, iterator, max_retries, data, results,
                   statistics, reply, error>>
    /\ UNCHANGED <<concurrent, outside>>

\* one turn of the loop of lines 289-304, and lines 306-324 when it runs out;
\* the locals of run are gone once it returns
GenerateSql ==
    /\ pc = "generate"
    /\ \E outcome \in {Raises} \cup {Returns(t) : t \in SqlTexts} :
       \E res \in IF Executes(data, tools, outcome)
                  THEN ExecStrings ELSE {NotExecuted} :
         LET attempt == Attempt(previous_sql, previous_error, data, tools, outcome, res)
             e == SQLExecutionError(ParsedDict(outcome.text, SqlKeys).sql, res)
         IN  /\ attempts' = Append(attempts, attempt)
             /\ external' = external \cup {"model"}
                    \cup (IF attempt.executed THEN {"sql_executor"} ELSE {})
             /\ response' = Answer({"model"}, outcome)
             /\ IF RaisesSQLExecutionError(data, tools, outcome, res)
                THEN IF LoopsAgain(iterations)
                     THEN /\ previous_sql' = e.sql
                          /\ previous_error' = e.message
                          /\ iterations' = iterations + 1
                          /\ pc' = "generate"
                          /\ result' = result
                          /\ returns' = returns
                     ELSE /\ pc' = "returned"
                          /\ result' = SqlGenerationExhausted(data, e.message)
                          /\ returns' =
                               Append(returns,
                                      Return(SqlGenerationExhausted(data, e.message)))
                          /\ iterations' = 0
                          /\ previous_sql' = ""
                          /\ previous_error' = ""
                ELSE /\ result' = generate_sql(data, tools, outcome, res)
                     /\ returns' =
                          Append(returns, Return(generate_sql(data, tools, outcome, res)))
                     /\ pc' = "returned"
                     /\ iterations' = 0
                     /\ previous_sql' = ""
                     /\ previous_error' = ""
    /\ UNCHANGED <<tools, stepIndex, retrying, iterator, max_retries, data, results,
                   statistics, reply, error, calls>>
    /\ UNCHANGED <<concurrent, outside>>

\* lines 74-94: the result is retryable and the budget allows another attempt
Retry ==
    /\ pc = "returned"
    /\ WantsRetry
    /\ statistics' = AppendStatistics(statistics, result)
    /\ iterator' = IF retrying THEN iterator + 1 ELSE 1
    /\ max_retries' = IF retrying THEN max_retries ELSE result.error.retry_count
    /\ retrying' = TRUE
    /\ pc' = "call"
    /\ attempts' = <<>>
    /\ external' = {}
    /\ response' = <<>>
    /\ UNCHANGED <<tools, stepIndex, data, result, results, reply, error, calls,
                   returns, iterations, previous_sql, previous_error>>
    /\ UNCHANGED <<concurrent, outside>>

\* lines 96-123: the step's final result is recorded; the run halts on an error,
\* stops on a terminal result or after the last step, and goes on otherwise
Accept ==
    /\ pc = "returned"
    /\ ~WantsRetry
    /\ statistics' = AppendStatistics(statistics, result)
    /\ results' = Append(results, result)
    /\ reply' = NewReply(reply, result.data)
    /\ IF HaltsOnError(result)
       THEN /\ error' = result.error
            /\ pc' = "done"
            /\ UNCHANGED <<data, stepIndex>>
       ELSE /\ data' = Update(data, result.data)
            /\ error' = error
            /\ IF StopsAfter(result, stepIndex)
               THEN pc' = "done" /\ stepIndex' = stepIndex
               ELSE pc' = "call" /\ stepIndex' = stepIndex + 1
    /\ retrying' = FALSE
    /\ iterator' = 0
    /\ max_retries' = 0
    /\ attempts' = <<>>
    /\ external' = {}
    /\ response' = <<>>
    /\ UNCHANGED <<tools, result, calls, returns, iterations, previous_sql,
                   previous_error>>
    /\ UNCHANGED <<concurrent, outside>>

\* Handled with the step type run starts with (line 69), whatever step failed
HandledAsFirstStep(step_type, d, e) ==
    PipelineStepOutput(pipeline_steps[1], d, d, EmptyText, TRUE, e, NoStatistics)

\* lines 125-132: the StepOutput the handler builds for the exception e
Handled(step_type, d, e) ==
    PipelineStepOutput(step_type, d, d, EmptyText, TRUE, e, NoStatistics)

\* lines 76/89 raise inside model_validate, and the handler of lines 124-140
ValidationRaises ==
    /\ pc = "returned"
    /\ HasStatistics(result.statistics)
    /\ results' = Append(results,
           Handled(pipeline_steps[stepIndex], data,
                   PlainException("validation error")))
    /\ error' = PlainException("validation error")
    /\ pc' = "done"
    /\ attempts' = <<>>
    /\ external' = {}
    /\ response' = <<>>
    /\ UNCHANGED <<tools, stepIndex, retrying, iterator, max_retries, data, result,
                   statistics, reply, calls, returns, iterations, previous_sql,
                   previous_error>>
    /\ UNCHANGED <<concurrent, outside>>

Next ==
    \/ CallClassifier
    \/ CallRequirementGathering
    \/ CallSqlGeneration
    \/ GenerateSql
    \/ CallSummarization
    \/ Retry
    \/ Accept

Spec == Init /\ [][Next]_vars

\* the run when a statistics record may fail its validation
NextFault == Next \/ ValidationRaises

SpecFault == Init /\ [][NextFault]_vars

-----------------------------------------------------------------------------
(* The endpoint after the run: the PipelineResult is persisted             *)

\* query_api, lines 74-81: add_pipeline_result with the steps and statistics
\* of the PipelineResult run returned
AddPipelineResult ==
    /\ pc = "done"
    /\ ~store.committed
    /\ store' = add_pipeline_result(store, results, statistics)
    /\ UNCHANGED <<single, concurrent, parser, pool, callers>>

NextService == NextFault \/ AddPipelineResult

SpecService == Init /\ [][NextService]_vars

-----------------------------------------------------------------------------
(* A step's run called on its own, with any incoming state                 *)

\* a key the incoming state does not have
Absent == <<>>

\* the incoming state with the given values under the keys the steps read; a
\* value is given as a sequence of one element, a missing key as Absent
IncomingState(schema_tool_name, requirement, connection_id, sql, sql_data) ==
    LET given == [k \in {"schema_tool_name", "requirement", "connection_id", "sql",
                         "sql_data"} |->
                    CASE k = "schema_tool_name" -> schema_tool_name
                      [] k = "requirement" -> requirement
                      [] k = "connection_id" -> connection_id
                      [] k = "sql" -> sql
                      [] OTHER -> sql_data]
        present == {k \in DOMAIN given : Len(given[k]) > 0}
    IN  [k \in DOMAIN InitialData \cup present |->
           IF k \in present THEN given[k][1] ELSE InitialData[k]]

IncomingStates ==
    {IncomingState(s, q, c, l, sd) :
       s \in {Absent, <<"">>, <<"aSchemaGetter">>, <<"zSchemaGetter">>},
       q \in {Absent, <<None>>, <<"count the orders">>},
       c \in {Absent, <<"">>, <<"id-a">>},
       l \in {Absent, <<"">>, <<"SELECT 1">>},
       sd \in {Absent, <<NoSqlData>>, <<SqlData(Rows(1))>>}}

\* the steps that read the incoming state
StateReaders == {NATURAL_LANGUAGE_TO_SQL, DATA_SUMMARIZATION}

InitDirect ==
    /\ tools \in ToolLists
    /\ pc = "call"
    /\ stepIndex \in {i \in 1..Len(pipeline_steps) : pipeline_steps[i] \in StateReaders}
    /\ retrying = FALSE
    /\ iterator = 0
    /\ max_retries = 0
    /\ data \in IncomingStates
    /\ result = NoResult
    /\ results = <<>>
    /\ statistics = <<>>
    /\ reply = ""
    /\ error = NoError
    /\ calls = <<>>
    /\ returns = <<>>
    /\ iterations = 0
    /\ previous_sql = ""
    /\ previous_error = ""
    /\ attempts = <<>>
    /\ external = {}
    /\ response = <<>>
    /\ sqlStep = NewSqlStep
    /\ threads = [r \in Runs |-> NewThread]
    /\ parser = NoParser
    /\ store = NewStore
    /\ pool = NewPool
    /\ callers = [c \in Callers |-> NewCaller]

NextDirect ==
    \/ CallSqlGeneration
    \/ GenerateSql
    \/ CallSummarization

SpecDirect == InitDirect /\ [][NextDirect]_vars

-----------------------------------------------------------------------------
(* Concurrent runs inside the shared SQL generation step: what each run     *)
(* does to the token counters and the start time the step keeps on its      *)
(* instance.  The statistics of the single run above carry their step type  *)
(* only; the counters are followed here.                                    *)

\* run, lines 284-287: the counters of the instance are reset and the start
\* time is taken
StartGeneration(r) ==
    /\ threads[r].pc = "idle"
    /\ sqlStep' = [completion_tokens |-> 0, prompt_tokens |-> 0, start_time |-> Time(r)]
    /\ threads' = [threads EXCEPT ![r].pc = "invoke"]
    /\ UNCHANGED <<single, outside>>

\* generate_sql, lines 350-397: the model call returned; a response that does
\* not parse is returned without statistics, otherwise its tokens are added to
\* the counters of the instance and the statistics are read from the instance
AccountTokens(r) ==
    /\ threads[r].pc = "invoke"
    /\ \E parsed \in BOOLEAN :
         IF parsed
         THEN LET step == [sqlStep EXCEPT
                            !.completion_tokens = @ + Usage.output_tokens,
                            !.prompt_tokens = @ + Usage.input_tokens]
              IN  /\ sqlStep' = step
                  /\ threads' = [threads EXCEPT
                                   ![r].pc = "execute",
                                   ![r].output_tokens = @ + Usage.output_tokens,
                                   ![r].input_tokens = @ + Usage.input_tokens,
                                   ![r].statistics = ThreadStatistics(step)]
         ELSE /\ sqlStep' = sqlStep
              /\ threads' = [threads EXCEPT ![r].pc = "done",
                                            ![r].statistics = NoThreadStatistics]
    /\ UNCHANGED <<single, outside>>

\* generate_sql, lines 399-416, and run, lines 289-324: the executor returned;
\* without an execution error the StepOutput keeps the statistics read before,
\* with one the loop goes on or, out of attempts, run reads the statistics
\* from the instance again
ExecuteSql(r) ==
    /\ threads[r].pc = "execute"
    /\ \E failed \in BOOLEAN :
         IF ~failed
         THEN threads' = [threads EXCEPT ![r].pc = "done"]
         ELSE IF LoopsAgain(threads[r].iterations)
         THEN threads' = [threads EXCEPT ![r].pc = "invoke", ![r].iterations = @ + 1]
         ELSE threads' = [threads EXCEPT ![r].pc = "done",
                                         ![r].statistics = ThreadStatistics(sqlStep)]
    /\ UNCHANGED <<sqlStep>>
    /\ UNCHANGED <<single, outside>>

NextConcurrent ==
    \E r \in Runs : StartGeneration(r) \/ AccountTokens(r) \/ ExecuteSql(r)

SpecConcurrent == Init /\ [][NextConcurrent]_vars

-----------------------------------------------------------------------------
(* The response parser on the blocks of valid records                      *)

InitParser ==
    /\ tools = <<>>
    /\ pc = "call"
    /\ stepIndex = 1
    /\ retrying = FALSE
    /\ iterator = 0
    /\ max_retries = 0
    /\ data = InitialData
    /\ result = NoResult
    /\ results = <<>>
    /\ statistics = <<>>
    /\ reply = ""
    /\ error = NoError
    /\ calls = <<>>
    /\ returns = <<>>
    /\ iterations = 0
    /\ previous_sql = ""
    /\ previous_error = ""
    /\ attempts = <<>>
    /\ external = {}
    /\ response = <<>>
    /\ sqlStep = NewSqlStep
    /\ threads = [r \in Runs |-> NewThread]
    /\ parser \in ParserInputs
    /\ store = NewStore
    /\ pool = NewPool
    /\ callers = [c \in Callers |-> NewCaller]

\* the record is written as a block
SerializeRecord ==
    /\ parser.pc = "record"
    /\ parser' = [pc |-> "text", fields |-> parser.fields, record |-> parser.record,
                  lines |-> Serialize(parser.record, parser.fields)]
    /\ UNCHANGED <<single, concurrent, store, pool, callers>>

\* parser.invoke(raw_data): the record it returns, as a sequence of one
\* element, or none when it raises
InvokeParser ==
    /\ parser.pc = "text"
    /\ LET raw_data == BlockText(parser.lines)
           keys == {parser.fields[i] : i \in 1..Len(parser.fields)}
       IN  parser' = [pc |-> "parsed", fields |-> parser.fields,
                      record |-> parser.record, lines |-> parser.lines,
                      output |-> IF ParseOk(raw_data, RequiredOf(parser.fields))
                                 THEN <<ParsedDict(raw_data, keys)>>
                                 ELSE <<>>]
    /\ UNCHANGED <<single, concurrent, store, pool, callers>>

NextParser == SerializeRecord \/ InvokeParser

SpecParser == InitParser /\ [][NextParser]_vars

-----------------------------------------------------------------------------
(* Concurrent calls of get_connection_pool                                 *)

\* line 24: the call reads the pool's entry for its connection string
CheckPool(c) ==
    /\ callers[c].pc = "idle"
    /\ \E db_connection \in ConnectionStrings :
         callers' = [callers EXCEPT
                       ![c].db_connection = db_connection,
                       ![c].pc = IF pool.dict[db_connection] = NoEngine
                                 THEN "create" ELSE "return"]
    /\ UNCHANGED <<single, concurrent, parser, store, pool>>

\* line 25, right-hand side: create_engine(db_connection) makes a new engine
CreateEngine(c) ==
    /\ callers[c].pc = "create"
    /\ pool' = [pool EXCEPT !.created = Append(@, callers[c].db_connection)]
    /\ callers' = [callers EXCEPT ![c].engine = Len(pool.created) + 1,
                                  ![c].pc = "store"]
    /\ UNCHANGED <<single, concurrent, parser, store>>

\* line 25, the assignment: the engine is put into the pool
StoreEngine(c) ==
    /\ callers[c].pc = "store"
    /\ pool' = [pool EXCEPT !.dict[callers[c].db_connection] = callers[c].engine]
    /\ callers' = [callers EXCEPT ![c].pc = "return"]
    /\ UNCHANGED <<single, concurrent, parser, store>>

\* line 26: the call returns the pool's entry
ReturnEngine(c) ==
    /\ callers[c].pc = "return"
    /\ callers' = [callers EXCEPT ![c].returned = pool.dict[callers[c].db_connection],
                                  ![c].pc = "returned"]
    /\ UNCHANGED <<single, concurrent, parser, store, pool>>

NextPool ==
    \E c \in Callers : CheckPool(c) \/ CreateEngine(c) \/ StoreEngine(c) \/ ReturnEngine(c)

SpecPool == Init /\ [][NextPool]_vars

-----------------------------------------------------------------------------
(* Properties                                                              *)

Max(S) == CHOOSE x \in S : \A y \in S : x >= y

StepTypes == {pipeline_steps[i] : i \in 1..Len(pipeline_steps)}

\* the position of a step in the fixed order
PositionOf(step_type) ==
    CHOOSE i \in 1..Len(pipeline_steps) : pipeline_steps[i] = step_type

\* the invocations of one step, as indices of calls
CallsOf(step_type) == {j \in 1..Len(calls) : calls[j].step_type = step_type}

\* the entries one step has in the trace
EntriesOf(step_type) == {i \in 1..Len(results) : results[i].step_type = step_type}

\* a StepOutput a step returned (the orchestrator's own is built from the state)
FromStep(o) == "user_id" \notin DOMAIN o.input

\* C1: a step whose first result is a retryable failure with budget retry_count
\* is invoked at most retry_count + 1 times; it is invoked again only after an
\* attempt that returned a retryable failure, so a first result without error
\* or with another error means exactly one invocation.
C1_RetryBudget ==
    /\ \A t \in StepTypes :
         CallsOf(t) # {} /\ Min(CallsOf(t)) <= Len(returns) =>
           Cardinality(CallsOf(t)) <=
             (IF returns[Min(CallsOf(t))].kind = "retryable"
              THEN returns[Min(CallsOf(t))].retry_count + 1
              ELSE 1)
    /\ \A j \in 1..(Len(calls) - 1) :
         calls[j + 1].step_type = calls[j].step_type => returns[j].kind = "retryable"

\* C1 witness: a step used its whole budget, and the run is over
C1_Witness ==
    /\ pc = "done"
    /\ \E t \in StepTypes : Cardinality(CallsOf(t)) = DefaultRetryCount + 1

\* C2 (as claimed): a step invoked k times has exactly k entries in the trace
C2_EveryAttemptInTrace ==
    pc = "done" =>
      \A t \in StepTypes : Cardinality(EntriesOf(t)) = Cardinality(CallsOf(t))

\* C3: a step's final attempt with an error ends the run: it is the last entry
\* of the trace, the run is over with that error as its error, and the last
\* invocation made is one of that step.
C3_ErrorHalts ==
    \A i \in 1..Len(results) :
      HasError(results[i].error) =>
        /\ i = Len(results)
        /\ pc = "done"
        /\ error = results[i].error
        /\ calls[Len(calls)].step_type = results[i].step_type

\* C3 witness: a run halted by a retryable failure that outlived its budget
C3_Witness ==
    /\ pc = "done"
    /\ IsRetryable(error)
    /\ Len(results) = 3
    /\ Cardinality(CallsOf(NATURAL_LANGUAGE_TO_SQL)) = DefaultRetryCount + 1

\* C4: an error-free terminal StepOutput ends the run without error and is the
\* last entry of the trace, whatever the step's position; after an error-free
\* non-terminal StepOutput the next step of the fixed order is the next one
\* invoked, and no step is invoked out of that order.
C4_TerminalStopsElseNext ==
    /\ \A i \in 1..Len(results) :
         ~HasError(results[i].error) /\ results[i].terminal =>
           /\ i = Len(results)
           /\ pc = "done"
           /\ error = NoError
           /\ calls[Len(calls)].step_type = results[i].step_type
    /\ \A i \in 1..Len(results) :
         /\ ~HasError(results[i].error)
         /\ ~results[i].terminal
         /\ PositionOf(results[i].step_type) < Len(pipeline_steps)
         => LET next == pipeline_steps[PositionOf(results[i].step_type) + 1]
                last == Max(CallsOf(results[i].step_type))
            IN  IF last = Len(calls)
                THEN pc = "call" /\ pipeline_steps[stepIndex] = next
                ELSE calls[last + 1].step_type = next
    /\ \A j \in 1..(Len(calls) - 1) :
         calls[j + 1].step_type # calls[j].step_type =>
           /\ PositionOf(calls[j + 1].step_type) = PositionOf(calls[j].step_type) + 1
           /\ \E i \in EntriesOf(calls[j].step_type) :
                ~HasError(results[i].error) /\ ~results[i].terminal

\* C4 witness: the requirement step, second of four, stopped the run
C4_Witness ==
    /\ pc = "done"
    /\ error = NoError
    /\ Len(results) = 2
    /\ results[2].terminal

\* the value the latest step before position p wrote under key k
LastWritten(k, p) ==
    LET W == {i \in 1..(p - 1) : i <= Len(results) /\ k \in DOMAIN results[i].data}
    IN  IF W = {} THEN InitialData[k] ELSE results[Max(W)].data[k]

\* C5: the state a step is invoked with holds, for every key, the value of the
\* latest earlier step that wrote the key, and the keys only earlier steps or
\* the caller wrote are still there.
C5_LastWriteWins ==
    \A j \in 1..Len(calls) :
      LET p == PositionOf(calls[j].step_type)
          written == UNION {DOMAIN results[i].data : i \in 1..(p - 1)}
      IN  /\ DOMAIN calls[j].data = DOMAIN InitialData \cup written
          /\ \A k \in DOMAIN calls[j].data : calls[j].data[k] = LastWritten(k, p)

\* C5 witness: the summarization step is invoked with the SQL step's reply,
\* which replaced the requirement step's, and with the requirement step's keys
C5_Witness ==
    \E j \in 1..Len(calls) :
      /\ calls[j].step_type = DATA_SUMMARIZATION
      /\ results[2].data["reply"] = "which table do you mean?"
      /\ results[3].data["reply"] = "here is the query"
      /\ calls[j].data["reply"] = "here is the query"
      /\ calls[j].data["requirement"] = results[2].data["requirement"]

C7_ErrorImpliesTerminal ==
    /\ HasError(result.error) => result.terminal
    /\ \A i \in 1..Len(results) : HasError(results[i].error) => results[i].terminal

\* C7 witness: the trace ends with the StepOutput the orchestrator built
C7_Witness ==
    /\ pc = "done"
    /\ Len(results) = 3
    /\ ~FromStep(results[3])
    /\ HasError(results[3].error)
    /\ HasError(results[2].error) = FALSE

\* the requirement step parsed a clear, unanswered requirement whose
\* schema_tool_name names no schema getter of the tool list with a connection id
Unresolved(o) ==
    /\ o.step_type = REQUIREMENTS_EXTRACTION
    /\ FromStep(o)
    /\ ParseOk(o.raw_data, RequirementRequired)
    /\ o.raw_data.fields["is_requirement_clear"]
    /\ ~o.raw_data.fields["is_already_answered_without_further_queries"]
    /\ ~\E n \in 1..Len(tools) :
          /\ tools[n].kind = "SchemaGetter"
          /\ tools[n].name = Get(o.raw_data.fields, "schema_tool_name")
          /\ tools[n].connection_id # None

C9_SummarizerAlwaysTerminal ==
    /\ result.step_type = DATA_SUMMARIZATION => result.terminal
    /\ \A i \in 1..Len(results) :
         results[i].step_type = DATA_SUMMARIZATION => results[i].terminal

\* the requirement step parsed a response that is unclear or already answered
Stopped(o) ==
    /\ o.step_type = REQUIREMENTS_EXTRACTION
    /\ FromStep(o)
    /\ ParseOk(o.raw_data, RequirementRequired)
    /\ \/ ~o.raw_data.fields["is_requirement_clear"]
       \/ o.raw_data.fields["is_already_answered_without_further_queries"]

\* C10: an unclear or already answered requirement ends the run right after the
\* requirement step, without error and without retry; the reply is the
\* response's reply text and neither the SQL step nor the summarization step
\* is invoked or appears in the trace.
C10_StoppedByRequirementStep ==
    /\ pc = "returned" /\ Stopped(result) =>
         ~HasError(result.error) /\ result.terminal /\ ~WantsRetry
    /\ \A i \in 1..Len(results) :
         Stopped(results[i]) =>
           /\ i = Len(results)
           /\ pc = "done"
           /\ error = NoError
           /\ reply = results[i].raw_data.fields["reply"]
           /\ CallsOf(NATURAL_LANGUAGE_TO_SQL) = {}
           /\ CallsOf(DATA_SUMMARIZATION) = {}
           /\ EntriesOf(NATURAL_LANGUAGE_TO_SQL) = {}
           /\ EntriesOf(DATA_SUMMARIZATION) = {}

\* C10 witness: the run ended with the clarifying question of an unclear
\* requirement
C10_Witness ==
    /\ pc = "done"
    /\ Len(results) = 2
    /\ Stopped(results[2])
    /\ ~results[2].raw_data.fields["is_requirement_clear"]
    /\ reply = "which table do you mean?"

\* a StepOutput of the requirement step that lets the run continue
Continues(o) ==
    /\ o.step_type = REQUIREMENTS_EXTRACTION
    /\ FromStep(o)
    /\ ~HasError(o.error)
    /\ ~o.terminal

\* the data names a schema getter of the tool list and carries its connection id
NamesBoundSchema(d) ==
    \E n \in 1..Len(tools) :
      /\ tools[n].kind = "SchemaGetter"
      /\ tools[n].name = Get(d, "schema_tool_name")
      /\ tools[n].connection_id # None
      /\ Get(d, "connection_id") = tools[n].connection_id

\* C11 (as claimed): every non-terminal StepOutput of the requirement step has
\* a non-empty requirement, a schema_tool_name naming a schema getter of the
\* tool list, and that tool's non-null connection_id.
C11_ContinuesWithRequirement ==
    /\ Continues(result) =>
         ~Falsy(Get(result.data, "requirement")) /\ NamesBoundSchema(result.data)
    /\ \A i \in 1..Len(results) :
         Continues(results[i]) =>
           /\ ~Falsy(Get(results[i].data, "requirement"))
           /\ NamesBoundSchema(results[i].data)

\* C12: one invocation of the SQL step calls generate_sql at most 3 times; the
\* first call is given an empty previous SQL and error, and a further call is
\* made only after a call whose SQL the executor reported as an execution
\* error, and is given exactly that call's SQL and that error text.
C12_AttemptsFeedForward ==
    /\ Len(attempts) <= MaxSqlAttempts
    /\ attempts # <<>> =>
         attempts[1].previous_sql = "" /\ attempts[1].previous_error = ""
    /\ \A n \in 1..(Len(attempts) - 1) :
         /\ attempts[n].executed
         /\ detect_sql_error(attempts[n].res)
         /\ attempts[n + 1].previous_sql = attempts[n].sql
         /\ attempts[n + 1].previous_error = attempts[n].res.message
    /\ pc = "generate" => Len(attempts) = iterations /\ Len(attempts) < MaxSqlAttempts

\* C12 witness: a third attempt was made, each prompt carrying the SQL and
\* error of the attempt before it
C12_Witness ==
    /\ pc = "returned"
    /\ Len(attempts) = MaxSqlAttempts
    /\ attempts[1].sql = "SELECT 1" /\ attempts[1].res.message = "error-1"
    /\ attempts[2].sql = "SELECT 2" /\ attempts[2].res.message = "error-2"
    /\ attempts[2].previous_sql = "SELECT 1"
    /\ attempts[3].previous_sql = "SELECT 2"
    /\ attempts[3].previous_error = "error-2"

\* the latest invocation of the SQL step made 3 attempts, and the executor
\* reported the SQL of each of them as an execution error
Exhausted ==
    /\ Len(attempts) = MaxSqlAttempts
    /\ \A n \in 1..MaxSqlAttempts :
         attempts[n].executed /\ detect_sql_error(attempts[n].res)

\* C13: after 3 attempts that all ended in execution errors the SQL step
\* returns a fatal error whose text is the third attempt's execution error, with
\* terminal = true; the orchestrator does not invoke the step again: its next
\* step ends the run, without another invocation, with that StepOutput last in
\* the trace and its error as the run's error (or, when the validation of the
\* statistics raised, with the StepOutput the orchestrator built); no run with
\* a failed SQL step invokes the summarization step.
C13_ExhaustedIsFatal ==
    /\ [](pc = "returned" /\ Exhausted =>
            /\ result.step_type = NATURAL_LANGUAGE_TO_SQL
            /\ result.error.kind = "fatal"
            /\ result.error.message = attempts[MaxSqlAttempts].res.message
            /\ result.terminal
            /\ ~WantsRetry)
    /\ []((\E i \in EntriesOf(NATURAL_LANGUAGE_TO_SQL) : HasError(results[i].error)) =>
            /\ pc = "done"
            /\ CallsOf(DATA_SUMMARIZATION) = {}
            /\ EntriesOf(DATA_SUMMARIZATION) = {})
    /\ [][pc = "returned" /\ Exhausted =>
            /\ pc' = "done"
            /\ calls' = calls
            /\ \/ results' = Append(results, result) /\ error' = result.error
               \/ ~FromStep(results'[Len(results')])
        ]_vars

\* C13 witness: the SQL step returned the third of three execution errors, the
\* first of which was another
C13_Witness ==
    /\ pc = "returned"
    /\ Exhausted
    /\ attempts[1].res.message = "error-2"
    /\ attempts[MaxSqlAttempts].res.message = "error-1"
    /\ result.error = PlainException("error-1")
    /\ Cardinality(CallsOf(NATURAL_LANGUAGE_TO_SQL)) = 1

\* the latest invocation of the SQL step made 3 attempts: the executor reported
\* the SQL of the first two as execution errors and not that of the third
ThirdAttemptPasses ==
    /\ Len(attempts) = MaxSqlAttempts
    /\ \A n \in 1..(MaxSqlAttempts - 1) :
         attempts[n].executed /\ detect_sql_error(attempts[n].res)
    /\ attempts[MaxSqlAttempts].executed
    /\ ~detect_sql_error(attempts[MaxSqlAttempts].res)

\* the first 10 rows, all rows if there are fewer
FirstRows(rows) == SubSeq(rows, 1, Min({SampleRows, Len(rows)}))

\* the SQL step's StepOutput o is the success of an attempt with sql_data sd
SucceedsWith(o, attempt, sd) ==
    /\ o.step_type = NATURAL_LANGUAGE_TO_SQL
    /\ ~HasError(o.error)
    /\ ~o.terminal
    /\ o.data["sql"] = attempt.sql
    /\ o.data["sql_data"] = sd

\* C14 (as claimed): when the third attempt is the first that passes and the
\* executor returned its rows, the SQL step's StepOutput carries the third
\* attempt's SQL and the first 10 of its rows as sql_data.
C14_SampleIsFirstTenRows ==
    /\ pc = "returned"
    /\ ThirdAttemptPasses
    /\ attempts[MaxSqlAttempts].res.message = ""
    => SucceedsWith(result, attempts[MaxSqlAttempts],
                    SqlData(FirstRows(attempts[MaxSqlAttempts].res.rows)))

\* C14 (amended): when the third attempt is the first that passes, the SQL step
\* returns one error-free, non-terminal StepOutput; its sql is the third
\* attempt's SQL and its sql_data is the first 10 rows of the third attempt's
\* result when the executor's string reads back as a list of rows, and None
\* when it does not.  When the orchestrator goes on, that StepOutput is the
\* only one of the SQL step in the trace.
C14_SampleIsFirstTenRowsOrNone ==
    /\ [](pc = "returned" /\ ThirdAttemptPasses =>
            /\ SucceedsWith(result, attempts[MaxSqlAttempts],
                            IF attempts[MaxSqlAttempts].res.literal
                            THEN SqlData(FirstRows(attempts[MaxSqlAttempts].res.rows))
                            ELSE NoSqlData)
            /\ ~WantsRetry)
    /\ [][pc = "returned" /\ ThirdAttemptPasses /\ pc' = "call" =>
            /\ results' = Append(results, result)
            /\ EntriesOf(NATURAL_LANGUAGE_TO_SQL) = {}
            /\ pipeline_steps[stepIndex'] = DATA_SUMMARIZATION
        ]_vars

\* C14 witness: the third attempt returned more than 10 rows and the StepOutput
\* has the first 10
C14_Witness ==
    /\ pc = "returned"
    /\ ThirdAttemptPasses
    /\ Len(attempts[MaxSqlAttempts].res.rows) > SampleRows
    /\ attempts[MaxSqlAttempts].sql = "SELECT 2"
    /\ result.data["sql"] = "SELECT 2"
    /\ Len(result.data["sql_data"].rows) = SampleRows
    /\ result.data["sql_data"].rows = SubSeq(attempts[MaxSqlAttempts].res.rows, 1, SampleRows)

\* a StepOutput of the three steps that call the model reports a response that
\* could not be used: no structured block, or, in the SQL step, no SQL
ParseClassFailure(o) ==
    /\ o.step_type \in {REQUIREMENTS_EXTRACTION, NATURAL_LANGUAGE_TO_SQL,
                        DATA_SUMMARIZATION}
    /\ FromStep(o)
    /\ o.raw_data # EmptyText
    /\ \/ /\ o.step_type = REQUIREMENTS_EXTRACTION
          /\ ~ParseOk(o.raw_data, RequirementRequired)
       \/ /\ o.step_type = NATURAL_LANGUAGE_TO_SQL
          /\ \/ ~ParseOk(o.raw_data, SqlRequired)
             \/ Falsy(Get(o.raw_data.fields, "sql"))
       \/ /\ o.step_type = DATA_SUMMARIZATION
          /\ ~ParseOk(o.raw_data, SummaryKeys)

\* the StepOutput of a parse-class failure: retryable with budget 3, terminal
RetryableTerminal(o) ==
    /\ IsRetryable(o.error)
    /\ o.error.retry_count = DefaultRetryCount
    /\ o.terminal

\* the model's response r cannot be used by the step: it has no structured
\* block with the required fields or, in the SQL step, its sql is empty or missing
Unusable(step_type, r) ==
    CASE step_type = REQUIREMENTS_EXTRACTION -> ~ParseOk(r, RequirementRequired)
      [] step_type = NATURAL_LANGUAGE_TO_SQL ->
           ~ParseOk(r, SqlRequired) \/ Falsy(Get(r.fields, "sql"))
      [] step_type = DATA_SUMMARIZATION -> ~ParseOk(r, SummaryKeys)
      [] OTHER -> FALSE

Missing(d, k) == k \notin DOMAIN d \/ d[k] = None \/ d[k] = ""

\* C16: when schema_tool_name, requirement, connection_id or sql is absent or
\* empty in the state the summarization step is invoked with, the step returns
\* a fatal, non-retryable error with terminal = true and empty data, and it
\* calls neither the model nor the database nor any tool.
C16_SummarizerRequiresState ==
    /\ pc = "returned"
    /\ result.step_type = DATA_SUMMARIZATION
    /\ \E k \in {"schema_tool_name", "requirement", "connection_id", "sql"} :
         Missing(calls[Len(calls)].data, k)
    => /\ result.error.kind = "fatal"
       /\ result.terminal
       /\ result.data = EmptyDict
       /\ external = {}

\* C16 witness: the summarization step was invoked with a state that has
\* everything but the connection_id, and refused it
C16_Witness ==
    /\ pc = "returned"
    /\ result.step_type = DATA_SUMMARIZATION
    /\ ~Missing(calls[Len(calls)].data, "schema_tool_name")
    /\ ~Missing(calls[Len(calls)].data, "requirement")
    /\ Missing(calls[Len(calls)].data, "connection_id")
    /\ ~Missing(calls[Len(calls)].data, "sql")
    /\ result.error = PlainException("No connection_id found")

\* what went wrong inside the latest invocation, read off what it called: the
\* model call raised, the schema tool raised, the SQL step found no query
\* executor for its SQL, or reading the rows again raised
ModelFailed == "model" \in external /\ response = <<>>
SchemaToolFailed == external = {"schema_tool"}
ExecutorMissing ==
    /\ attempts # <<>>
    /\ attempts[Len(attempts)].sql \notin {None, ""}
    /\ ~attempts[Len(attempts)].executed
RowsFailed == "execute_custom_query" \in external /\ "model" \notin external

\* C17: every invocation of a step returns a StepOutput; after a failed model
\* call, a failed schema tool, a missing query executor or a failed reading of
\* the rows that StepOutput carries the fault as a non-retryable error, with
\* terminal = true and empty data.
C17_FaultsAreReturned ==
    /\ pc # "generate" => Len(returns) = Len(calls)
    /\ pc = "generate" => Len(returns) = Len(calls) - 1
    /\ pc = "returned" /\ (ModelFailed \/ SchemaToolFailed \/ ExecutorMissing \/ RowsFailed)
       => /\ result.step_type = pipeline_steps[stepIndex]
          /\ result.error.kind = "fatal"
          /\ result.error.message =
               (CASE SchemaToolFailed -> "schema tool failed"
                  [] RowsFailed -> "query failed"
                  [] ModelFailed -> "model call failed"
                  [] OTHER -> "'NoneType' object has no attribute 'run'")
          /\ result.terminal
          /\ result.data = EmptyDict
          /\ ~WantsRetry

\* C17 witness: the SQL step returned the fault of a missing query executor
\* after the model had answered with SQL
C17_Witness ==
    /\ pc = "returned"
    /\ ExecutorMissing
    /\ ~ModelFailed
    /\ result.step_type = NATURAL_LANGUAGE_TO_SQL
    /\ result.error.kind = "fatal"
    /\ calls[Len(calls)].data["schema_tool_name"] = "cSchemaGetter"

\* C18: while a step's run executes, the tool list and the shared state stay as
\* they were when it was invoked; the tool list never changes, and the shared
\* state changes only when the orchestrator merges the data of an error-free
\* StepOutput a step returned: the keys of that data take its values, every
\* other key keeps its own.
C18_StepsOnlyRead ==
    [][/\ tools' = tools
       /\ pc \in {"call", "generate"} => data' = data
       /\ pc' = "returned" => calls'[Len(calls')].data = data' /\ calls'[Len(calls')].tools = tools'
       /\ data' # data =>
            /\ pc = "returned"
            /\ ~HasError(result.error)
            /\ results' = Append(results, result)
            /\ DOMAIN data' = DOMAIN data \cup DOMAIN result.data
            /\ \A k \in DOMAIN data' :
                 data'[k] = IF k \in DOMAIN result.data THEN result.data[k] ELSE data[k]
      ]_vars

\* C18 witness: the summarization step returned and the state is the one it was
\* invoked with, the SQL step's keys merged into it
C18_Witness ==
    /\ pc = "returned"
    /\ result.step_type = DATA_SUMMARIZATION
    /\ ~HasError(result.error)
    /\ calls[Len(calls)].data = data
    /\ calls[Len(calls)].tools = tools
    /\ data["sql"] = "SELECT 2"
    /\ data["schema_tool_name"] = "aSchemaGetter"

\* C19: every StepOutput of the classifier is error-free, non-terminal and has
\* empty data; the classifier is invoked once, its StepOutput is accepted with
\* the shared state unchanged, the run does not end with it, and the
\* requirement step is the next one invoked.
C19_ClassifierAlwaysPasses ==
    /\ result.step_type = QUESTION_CLASSIFICATION =>
         /\ ~HasError(result.error)
         /\ ~result.terminal
         /\ result.data = EmptyDict
         /\ data = InitialData
         /\ ~(pc = "returned" /\ WantsRetry)
    /\ Len(results) >= 1 =>
         /\ results[1].step_type = QUESTION_CLASSIFICATION
         /\ ~HasError(results[1].error)
         /\ ~results[1].terminal
         /\ results[1].data = EmptyDict
    /\ Cardinality(CallsOf(QUESTION_CLASSIFICATION)) <= 1
    /\ stepIndex = 1 => pc \in {"call", "returned"} /\ error = NoError
    /\ pc = "done" =>
         /\ Len(calls) >= 2
         /\ calls[2].step_type = REQUIREMENTS_EXTRACTION
         /\ calls[2].data = InitialData

\* C19 witness: the run is over and the requirement step was invoked right
\* after the classifier's only StepOutput
C19_Witness ==
    /\ pc = "done"
    /\ results[1] = ClassifierRun
    /\ calls[1].step_type = QUESTION_CLASSIFICATION
    /\ calls[2].step_type = REQUIREMENTS_EXTRACTION
    /\ Cardinality(EntriesOf(QUESTION_CLASSIFICATION)) = 1

\* C20 (as claimed): the statistics a run gets from the SQL step count the
\* tokens of that run's own model calls and carry the start time that run took,
\* whatever the other run does meanwhile.
C20_RunsAreIndependent ==
    \A r \in Runs :
      threads[r].statistics.kind = "record" =>
        /\ threads[r].statistics.completion_tokens = threads[r].output_tokens
        /\ threads[r].statistics.prompt_tokens = threads[r].input_tokens
        /\ threads[r].statistics.call_start_time = Time(r)

RECURSIVE ReplyAfter(_, _)
ReplyAfter(old, outs) ==
    IF outs = <<>> THEN old
    ELSE ReplyAfter(NewReply(old, Head(outs).data), Tail(outs))

\* the entries of the trace that carry no error
ErrorFree(outs) == SelectSeq(outs, LAMBDA o : ~HasError(o.error))

\* C22 (as claimed): the reply is the one computed from the error-free
\* StepOutputs of the trace; a StepOutput that carries an error leaves it as
\* it was.
C22_ReplyFromSuccessfulSteps ==
    reply = ReplyAfter("", ErrorFree(results))

\* the shared state after the data of the StepOutputs outs is merged into d
RECURSIVE DataAfter(_, _)
DataAfter(d, outs) ==
    IF outs = <<>> THEN d
    ELSE DataAfter(Update(d, Head(outs).data), Tail(outs))

\* C23: the shared state is the initial one with the data of the error-free
\* StepOutputs of the trace merged in, and nothing else: data returned with an
\* error is never merged. Every invocation of a step, retries included, gets
\* the shared state its first invocation got.
C23_FailedAttemptsLeaveState ==
    /\ data = DataAfter(InitialData, ErrorFree(results))
    /\ pc = "returned" => data = calls[Len(calls)].data
    /\ \A i, j \in 1..Len(calls) :
         calls[i].step_type = calls[j].step_type => calls[i].data = calls[j].data

\* C23 witness: the SQL step failed four times, each time returning data with
\* its error; the run halted with the state the requirement step left
C23_Witness ==
    /\ pc = "done"
    /\ HasError(error)
    /\ Cardinality(CallsOf(NATURAL_LANGUAGE_TO_SQL)) = 4
    /\ results[Len(results)].step_type = NATURAL_LANGUAGE_TO_SQL
    /\ results[Len(results)].data # EmptyDict
    /\ "sql" \notin DOMAIN data
    /\ data["requirement"] = "count the orders"
    /\ \A j \in CallsOf(NATURAL_LANGUAGE_TO_SQL) : calls[j].data = data

\* the executor's string is the text of an exception: f returned str(e)
ReportsFailure(res) == res.message # ""

\* C24 (as claimed): an error-free StepOutput of the SQL step means that the
\* query executor ran the SQL of the last attempt and its string reports no
\* failure.
C24_SuccessMeansExecuted ==
    pc = "returned" /\ result.step_type = NATURAL_LANGUAGE_TO_SQL
                    /\ ~HasError(result.error) =>
      /\ attempts # <<>>
      /\ attempts[Len(attempts)].executed
      /\ ~ReportsFailure(attempts[Len(attempts)].res)

\* what is left of the run, as a natural number: the steps after the current
\* one, the invocations the retry budget still allows, and the moves left in
\* the current invocation; 0 when the run is over
Remaining ==
    LET perInvocation == MaxSqlAttempts + 2
        perStep == (DefaultRetryCount + 1) * perInvocation
        invocationsLeft == IF retrying THEN max_retries - iterator ELSE DefaultRetryCount
        movesLeft == CASE pc = "call" -> MaxSqlAttempts + 1
                       [] pc = "generate" -> MaxSqlAttempts - iterations
                       [] OTHER -> 0
    IN  IF pc = "done" THEN 0
        ELSE 1 + (Len(pipeline_steps) - stepIndex) * perStep
               + invocationsLeft * perInvocation + movesLeft

\* C25: every run ends when every call it makes returns: until it is over a
\* move is possible, and every move lowers what is left of the run. It invokes
\* each step at most DefaultRetryCount + 1 = 4 times, 16 times in all, and one
\* invocation of the SQL step makes at most MaxSqlAttempts = 3 model calls, 12
\* in a run.
C25_RunEndsWithinBounds ==
    /\ [](/\ \A t \in StepTypes : Cardinality(CallsOf(t)) <= DefaultRetryCount + 1
          /\ Len(calls) <= 16
          /\ Len(attempts) <= MaxSqlAttempts
          /\ pc = "generate" => Len(attempts) = iterations /\ iterations < MaxSqlAttempts
          /\ MaxSqlAttempts * Cardinality(CallsOf(NATURAL_LANGUAGE_TO_SQL)) <= 12
          /\ Remaining \in Nat
          /\ pc # "done" => ENABLED NextFault)
    /\ [][Remaining' < Remaining]_vars

\* C25 witness: the run is over after four invocations of the requirement step
\* and four of the SQL step, the last of which made three model calls
C25_Witness ==
    /\ pc = "returned"
    /\ Cardinality(CallsOf(REQUIREMENTS_EXTRACTION)) = DefaultRetryCount + 1
    /\ Cardinality(CallsOf(NATURAL_LANGUAGE_TO_SQL)) = DefaultRetryCount + 1
    /\ Len(attempts) = MaxSqlAttempts
    /\ ~WantsRetry

\* the last entry of the trace is the one the handler of run built
HandlerEntry(outs) == outs # <<>> /\ ~FromStep(outs[Len(outs)])

\* C26: the run always comes to return a PipelineResult. When the validation
\* of a step's statistics throws, the trace keeps the StepOutputs of the
\* earlier steps as they were, one per step and in order, and gets one more
\* entry, tagged with the failing step's type and carrying the exception,
\* which is also the error of the PipelineResult.
C26_ThrowIsReturned ==
    /\ [](/\ pc # "done" => ENABLED NextFault
          /\ HandlerEntry(results) =>
               /\ pc = "done"
               /\ Len(results) = stepIndex
               /\ results[Len(results)].step_type = pipeline_steps[stepIndex]
               /\ results[Len(results)].error = error
               /\ error.kind = "fatal"
               /\ \A i \in 1..(Len(results) - 1) :
                    /\ results[i].step_type = pipeline_steps[i]
                    /\ FromStep(results[i])
                    /\ ~HasError(results[i].error))
    /\ [][/\ \A i \in 1..Len(results) : results'[i] = results[i]
          /\ HandlerEntry(results') /\ ~HandlerEntry(results) =>
               /\ pc = "returned"
               /\ HasStatistics(result.statistics)
               /\ Len(results') = Len(results) + 1
               /\ calls[Len(calls)].step_type = results'[Len(results')].step_type
          /\ pc = "done" => pc' = "done"]_vars

\* C26 witness: the validation threw on a retried attempt of the SQL step; the
\* trace holds the classifier's and the requirement step's StepOutputs and the
\* handler's entry for the SQL step
C26_Witness ==
    /\ pc = "done"
    /\ Len(results) = 3
    /\ HandlerEntry(results)
    /\ results[3].step_type = NATURAL_LANGUAGE_TO_SQL
    /\ results[3].error = error
    /\ results[1] = ClassifierRun
    /\ results[2].step_type = REQUIREMENTS_EXTRACTION
    /\ Cardinality(CallsOf(NATURAL_LANGUAGE_TO_SQL)) = 2

\* the errors of the summarization step's checks of the incoming state
SummarizationPrecheckErrors ==
    {"No schema found", "No requirement found", "No connection_id found",
     "No sql found", "No schema tool found"}

\* C27: in a run of the four steps from a state with user_id and message_id
\* only, every invocation of the summarization step gets a state that holds
\* non-empty schema_tool_name, requirement, connection_id and sql, and a tool
\* list with the schema tool of that name; the step never returns one of the
\* errors of its checks of the incoming state.
C27_SummarizerStateComplete ==
    /\ calls # <<>> => DOMAIN calls[1].data = {"user_id", "message_id"}
    /\ \A j \in CallsOf(DATA_SUMMARIZATION) :
         /\ \A k \in {"schema_tool_name", "requirement", "connection_id", "sql"} :
              k \in DOMAIN calls[j].data /\ calls[j].data[k] \notin {None, ""}
         /\ \E i \in 1..Len(calls[j].tools) :
              calls[j].tools[i].name = calls[j].data["schema_tool_name"]
    /\ result.step_type = DATA_SUMMARIZATION =>
         result.error.message \notin SummarizationPrecheckErrors
    /\ \A i \in EntriesOf(DATA_SUMMARIZATION) :
         results[i].error.message \notin SummarizationPrecheckErrors

\* C27 witness: the summarization step was invoked, passed its checks and
\* failed later, when reading the rows again raised
C27_Witness ==
    /\ pc = "returned"
    /\ result.step_type = DATA_SUMMARIZATION
    /\ calls[Len(calls)].data["requirement"] = "count the orders"
    /\ calls[Len(calls)].data["connection_id"] = "id-a"
    /\ calls[Len(calls)].data["sql"] = "SELECT 1"
    /\ result.error = PlainException("query failed")

\* what the chat history is to show of a persisted step output: the raw model
\* text of the requirement step, the SQL of the SQL step, the data summary of
\* the summarization step
ShownOf(row) ==
    CASE row.step_type = REQUIREMENTS_EXTRACTION -> Paragraph("", row.raw_data, "")
      [] row.step_type = NATURAL_LANGUAGE_TO_SQL ->
           Paragraph("SQL query: ", EmptyText, get_data_str(row, "sql"))
      [] OTHER -> Paragraph("Data summary: ", EmptyText, get_data_str(row, "data_summary"))

\* the persisted step outputs of a message that the chat history is to show
ShownRows(message) ==
    SelectSeq(store.step_outputs,
              LAMBDA row : /\ row.message_id = message.id
                           /\ row.step_type \in {REQUIREMENTS_EXTRACTION,
                                                 NATURAL_LANGUAGE_TO_SQL,
                                                 DATA_SUMMARIZATION})

\* C28 (as claimed): once the trace of the run is persisted, the chat history
\* of the thread is the user entry of the run's message, the archived message
\* left out, followed by an ai entry for each persisted StepOutput of the
\* requirement, SQL and summarization steps, in the order of the trace.
C28_HistoryShowsSteps ==
    store.committed =>
      get_chat_history(store, ThreadId) =
        <<Entry("user", Paragraph("", EmptyText, Query))>>
        \o [i \in 1..Len(ShownRows(Messages[2])) |->
              Entry("ai", ShownOf(ShownRows(Messages[2])[i]))]

\* the rows of the statistics table copied from the j-th statistics record
RowsOfRecord(j) == {n \in 1..Len(store.statistics) : store.statistics[n].stat = j}

EnginesOf(db_connection) ==
    {n \in 1..Len(pool.created) : pool.created[n] = db_connection}

\* C30 (as claimed): at most one engine is created per connection string, and
\* all calls for one string return the same engine, however the calls
\* interleave.
C30_OneEnginePerString ==
    /\ \A db_connection \in ConnectionStrings :
         Cardinality(EnginesOf(db_connection)) <= 1
    /\ \A c, d \in Callers :
         /\ callers[c].pc = "returned"
         /\ callers[d].pc = "returned"
         /\ callers[c].db_connection = callers[d].db_connection
         => callers[c].returned = callers[d].returned

====
